---------------------------- MODULE Spec2Model ----------------------------
(***************************************************************************)
(* cpp-harem: an exception type (error_t) that carries a message rendered  *)
(* with boost::format and a set of typed tags (DECLARE_TAG) that can be    *)
(* read back with get<T>().  Model of src/main.cpp.                        *)
(*                                                                         *)
(* A caller statement `error_t e(reason, a1, ..., an)` is one step.  Each  *)
(* argument is a tag instance of some tag kind, carrying a std::string,    *)
(* and is passed as an expression of some value category, which decides    *)
(* the type the forwarding reference Args&& deduces for it.  A call the    *)
(* compiler rejects builds no program: it ends in status "rejected".       *)
(***************************************************************************)
EXTENDS Naturals, Sequences, FiniteSets

\* Longest message template tried, in characters.
MaxTmplLen == 4
\* Most tag arguments passed to one constructor call.
MaxArgs == 2

\* Characters a template is made of: the directive introducer, the
\* conversion character (also plain text when no "%" precedes it).
Chars == {"%", "s"}
Templates == UNION {[1..n -> Chars] : n \in 0..MaxTmplLen}

\* The tag kinds declared at the end of namespace cppharem.
TagKinds == {"key_t", "collection_t"}
\* std::string values a tag may carry: "k" and "%s".
Values == {<<"k">>, <<"%", "s">>}
\* How an argument expression is written at the call site:
\*   prvalue       key_t("k")            a temporary
\*   xvalue        std::move(k)          a named tag instance, moved
\*   lvalue        k                     a named tag instance
\*   const_lvalue  ck  (const key_t ck)  a named const tag instance
ValueCategories == {"prvalue", "xvalue", "lvalue", "const_lvalue"}

\* T::hash(): typeid(tag_type).hash_code().  DECLARE_TAG makes one tag_type
\* struct per tag kind; distinct types have distinct hash codes in every
\* build of the two declared tags.
hash(T) == CASE T = "key_t" -> 1 [] T = "collection_t" -> 2

\* The type Args&& deduces for one argument: the tag class itself for an
\* rvalue, a reference to it for an lvalue.
DeducedType(a) ==
    CASE a.cat = "prvalue" -> <<a.kind, "">>
      [] a.cat = "xvalue" -> <<a.kind, "">>
      [] a.cat = "lvalue" -> <<a.kind, "&">>
      [] a.cat = "const_lvalue" -> <<a.kind, "const&">>

Deduced(args) == [i \in 1..Len(args) |-> DeducedType(args[i])]

RECURSIVE vector_from_variadic(_)
\* type_traits::vector::from_variadic<Args...>: push_back onto the vector
\* of the rest.
vector_from_variadic(A) ==
    IF A = <<>> THEN <<>>
    ELSE IF Len(A) = 1 THEN <<A[1]>>
    ELSE Append(vector_from_variadic(Tail(A)), Head(A))

RECURSIVE set_from_variadic(_)
\* type_traits::set::from_variadic<Args...>: mpl::insert into the set of
\* the rest; a type already in the set is not inserted again.
set_from_variadic(A) ==
    IF A = <<>> THEN {}
    ELSE IF Len(A) = 1 THEN {A[1]}
    ELSE set_from_variadic(Tail(A)) \cup {Head(A)}

\* type_traits::has_duplicates<Args...>::value
has_duplicates(A) ==
    Len(vector_from_variadic(A)) # Cardinality(set_from_variadic(A))

(***************************************************************************)
(* boost::format as error_context::format uses it: printf-style directives,*)
(* default exception mask (all error bits set).                            *)
(***************************************************************************)
RECURSIVE parse(_, _, _)
\* boost::format's constructor over fmt from position i, items so far in
\* acc: "%%" is an escaped percent sign, "%s" a directive, a "%" that ends
\* the string or is followed by anything else throws bad_format_string.
parse(fmt, i, acc) ==
    IF i > Len(fmt) THEN [exc |-> "none", items |-> acc]
    ELSE IF fmt[i] # "%" THEN parse(fmt, i + 1, Append(acc, <<"text", fmt[i]>>))
    ELSE IF i = Len(fmt) THEN [exc |-> "bad_format_string", items |-> <<>>]
    ELSE IF fmt[i + 1] = "%" THEN parse(fmt, i + 2, Append(acc, <<"text", "%">>))
    ELSE IF fmt[i + 1] = "s" THEN parse(fmt, i + 2, Append(acc, <<"arg", "s">>))
    ELSE [exc |-> "bad_format_string", items |-> <<>>]

\* The number of directives of a parsed format string (num_args_).
num_args(items) == Cardinality({i \in 1..Len(items) : items[i][1] = "arg"})

\* boost::format formatted(fmt)
boost_format(fmt) ==
    LET p == parse(fmt, 1, <<>>)
    IN  [exc |-> p.exc, items |-> p.items, bound |-> <<>>]

\* message % x: binds x to the next directive; with every directive bound
\* already it throws too_many_args.
feed(message, x) ==
    IF message.exc # "none" THEN message
    ELSE IF Len(message.bound) >= num_args(message.items)
         THEN [message EXCEPT !.exc = "too_many_args"]
    ELSE [message EXCEPT !.bound = Append(@, x)]

RECURSIVE concat(_, _, _)
\* The items from position i on, the k-th directive replaced by bound[k].
concat(items, i, bound) ==
    IF i > Len(items) THEN <<>>
    ELSE IF items[i][1] = "text" THEN <<items[i][2]>> \o concat(items, i + 1, bound)
    ELSE Head(bound) \o concat(items, i + 1, Tail(bound))

\* message.str(): throws too_few_args while a directive is unbound.
str(message) ==
    IF message.exc # "none" THEN [exc |-> message.exc, text |-> <<>>]
    ELSE IF Len(message.bound) < num_args(message.items)
         THEN [exc |-> "too_few_args", text |-> <<>>]
    ELSE [exc |-> "none", text |-> concat(message.items, 1, message.bound)]

RECURSIVE substitute_reversed(_, _, _)
\* A plausible slip: the pack is fed last argument first.
substitute_reversed(message, args, heap) ==
    IF args = <<>> THEN str(message)
    ELSE substitute_reversed(feed(message, heap[args[Len(args)].ptr].value),
                             SubSeq(args, 1, Len(args) - 1), heap)

RECURSIVE substitute(_, _, _)
\* error_context::detail::substitute: feeds arg.ptr->value of each
\* argument in turn, then renders.
substitute(message, args, heap) ==
    IF args = <<>> THEN str(message)
    ELSE substitute(feed(message, heap[Head(args).ptr].value), Tail(args), heap)

\* error_context::format(fmt, args...)
format(fmt, args, heap) ==
    LET formatted == boost_format(fmt)
    IN  substitute(formatted, args, heap)

(***************************************************************************)
(* error_t                                                                 *)
(***************************************************************************)
\* No error object.
NoError == [what_arg |-> <<>>, m_reason |-> <<>>, m_hash_index |-> <<>>,
            m_info_map |-> [h \in {} |-> 0]]

\* std::unordered_map::insert: an already present key keeps its entry.
insert(map, h, ptr) ==
    IF h \in DOMAIN map THEN map
    ELSE [x \in DOMAIN map \cup {h} |-> IF x = h THEN ptr ELSE map[x]]

\* error_t::index(T&& t): the one-argument overload.
index(obj, t) ==
    [obj EXCEPT !.m_hash_index = Append(@, hash(t.kind)),
                !.m_info_map = insert(@, hash(t.kind), t.ptr)]

RECURSIVE index_pack(_, _)
\* error_t::index(T&& t, Args&&... args): the first, then the rest.
index_pack(obj, args) ==
    IF Len(args) = 1 THEN index(obj, args[1])
    ELSE index_pack(index(obj, Head(args)), Tail(args))

\* What the compiler reports for the call error_t(reason, args...):
\*   static_assert        has_duplicates<Args...>::value
\*   no_matching_index    index() with an empty pack matches no overload
\*   hash_of_reference    the last argument reaches index(T&&) as it was
\*                        passed (the others go through std::move); for an
\*                        lvalue T is a reference and T::hash() ill-formed
Diagnostics(args) ==
    LET A == Deduced(args)
    IN  (IF has_duplicates(A) THEN {"static_assert"} ELSE {})
        \cup (IF Len(A) = 0 THEN {"no_matching_index"} ELSE {})
        \cup (IF Len(A) > 0 /\ A[Len(A)][2] # "" THEN {"hash_of_reference"} ELSE {})

\* error_t::error_t(reason, args...): the outcome of the call statement.
error_t(reason, args, heap) ==
    LET diag == Diagnostics(args)
        r == format(reason, args, heap)
    IN  IF diag # {}
        THEN [reason |-> reason, args |-> args, status |-> "rejected",
              failure |-> diag, obj |-> NoError]
        ELSE IF r.exc # "none"
        THEN [reason |-> reason, args |-> args, status |-> "thrown",
              failure |-> {r.exc}, obj |-> NoError]
        ELSE [reason |-> reason, args |-> args, status |-> "constructed",
              failure |-> {},
              obj |-> index_pack([what_arg |-> reason, m_reason |-> r.text,
                                  m_hash_index |-> <<>>,
                                  m_info_map |-> [h \in {} |-> 0]], args)]

\* error_t::what()
what(obj) == obj.m_reason

\* A plausible slip: the holder of the first indexed tag, whichever tag is
\* asked for.
get_first(obj, T, heap) ==
    IF hash(T) \notin DOMAIN obj.m_info_map
    THEN [thrown |-> "no such tag", value |-> <<>>]
    ELSE [thrown |-> "none",
          value |-> heap[obj.m_info_map[obj.m_hash_index[1]]].value]

\* A plausible slip: a missing tag is not reported.
get_unchecked(obj, T, heap) ==
    IF hash(T) \notin DOMAIN obj.m_info_map
    THEN [thrown |-> "none", value |-> <<>>]
    ELSE [thrown |-> "none", value |-> heap[obj.m_info_map[hash(T)]].value]

\* error_t::get<T>(): the outcome, a value or the runtime_error thrown.
\* The static_cast is to the holder's own type: the key is T's hash.
get(obj, T, heap) ==
    IF hash(T) \notin DOMAIN obj.m_info_map
    THEN [thrown |-> "no such tag", value |-> <<>>]
    ELSE [thrown |-> "none", value |-> heap[obj.m_info_map[hash(T)]].value]

(***************************************************************************)
(* The caller's program                                                    *)
(***************************************************************************)
VARIABLES
    e1,     \* the call error_t e1(reason, args...) and what came of it
    e2,     \* a second call, the same tag instances in another order
    heap,   \* the live info_impl_t holders: holder |-> [tag, value]
    named,  \* the holders the caller's named tag instances point to
    ret     \* what the last what() or get<T>() call returned or threw

vars == <<e1, e2, heap, named, ret>>

Range(f) == {f[x] : x \in DOMAIN f}

Idle == [reason |-> <<>>, args |-> <<>>, status |-> "idle", failure |-> {},
         obj |-> NoError]

NoCall == [op |-> "none", on |-> 0, tag |-> "", thrown |-> "none", value |-> <<>>]

\* An argument as written: its tag kind, the value given to the tag's
\* constructor, and the value category of the expression.
ArgSpecs == [kind : TagKinds, value : Values, cat : ValueCategories]
ArgLists == UNION {[1..n -> ArgSpecs] : n \in 0..MaxArgs}

\* _class_(const value_type& v) : ptr(new info_impl_t(v)): every tag
\* instance of the call gets a holder of its own.
NewTags(specs) ==
    [i \in 1..Len(specs) |->
        [kind |-> specs[i].kind, value |-> specs[i].value,
         cat |-> specs[i].cat, ptr |-> i]]

NewHolders(args) ==
    [i \in 1..Len(args) |-> [tag |-> args[i].kind, value |-> args[i].value]]

\* shared_ptr: a holder lives while a named tag instance or an error's
\* m_info_map points to it.
Live(h, nm, o1, o2) ==
    LET keep == nm \cup Range(o1.m_info_map) \cup Range(o2.m_info_map)
    IN  [p \in DOMAIN h \cap keep |-> h[p]]

Init ==
    /\ e1 = Idle
    /\ e2 = Idle
    /\ heap = [p \in {} |-> 0]
    /\ named = {}
    /\ ret = NoCall

\* error_t e1(reason, args...), with the declarations of the named tag
\* instances it passes (key_t k(v); one per argument that is not a
\* temporary).  A rejected call builds no program; a throw unwinds the scope
\* of the named tag instances; the temporaries die at the end of the
\* statement.
Construct ==
    /\ e1.status = "idle"
    /\ \E reason \in Templates, specs \in ArgLists :
         LET args == NewTags(specs)
             h == NewHolders(args)
             r == error_t(reason, args, h)
             nm == IF r.status = "constructed"
                   THEN {i \in 1..Len(args) : args[i].cat # "prvalue"}
                   ELSE {}
         IN  /\ e1' = r
             /\ named' = nm
             /\ heap' = Live(h, nm, r.obj, NoError)
    /\ UNCHANGED <<e2, ret>>

Permutations(n) ==
    {f \in [1..n -> 1..n] : \A i, j \in 1..n : f[i] = f[j] => i = j}

\* error_t e2(reason, args in another order...): the named tag instances
\* are the same objects as in the first call, the temporaries are written
\* again.
ConstructReordered(perm) ==
    /\ e1.status = "constructed"
    /\ e2.status = "idle"
    /\ \E i \in DOMAIN perm : perm[i] # i
    /\ \A i \in 1..Len(e1.args) : e1.args[i].cat # "prvalue" => i \in named
    /\ LET n == Len(e1.args)
           args == [i \in 1..n |->
                      LET a == e1.args[perm[i]]
                      IN  IF a.cat = "prvalue"
                          THEN [a EXCEPT !.ptr = n + a.ptr]
                          ELSE [a EXCEPT !.value = heap[a.ptr].value]]
           fresh == {i \in 1..n : args[i].cat = "prvalue"}
           h == [p \in DOMAIN heap \cup {args[i].ptr : i \in fresh} |->
                   IF p \in DOMAIN heap THEN heap[p]
                   ELSE LET i == CHOOSE j \in fresh : args[j].ptr = p
                        IN  [tag |-> args[i].kind, value |-> args[i].value]]
           r == error_t(e1.reason, args, h)
       IN  /\ e2' = r
           /\ heap' = Live(h, named, e1.obj, r.obj)
    /\ UNCHANGED <<e1, named, ret>>

\* A plausible slip: m_info_map[T::hash()], which inserts an empty pointer
\* for a missing key.
subscript(map, h) == insert(map, h, 0)

\* m_info_map.find(T::hash()) leaves the map as it is.
find(map, h) == map

Errors == <<e1, e2>>

\* e.get<T>() on the first or the second error.
Get(which, T) ==
    /\ Errors[which].status = "constructed"
    /\ LET r == get(Errors[which].obj, T, heap)
       IN  ret' = [op |-> "get", on |-> which, tag |-> T,
                   thrown |-> r.thrown, value |-> r.value]
    /\ e1' = IF which = 1
             THEN [e1 EXCEPT !.obj.m_info_map = find(@, hash(T))] ELSE e1
    /\ e2' = IF which = 2
             THEN [e2 EXCEPT !.obj.m_info_map = find(@, hash(T))] ELSE e2
    /\ UNCHANGED <<heap, named>>

\* e.what() on the first or the second error.
What(which) ==
    /\ Errors[which].status = "constructed"
    /\ ret' = [op |-> "what", on |-> which, tag |-> "", thrown |-> "none",
               value |-> what(Errors[which].obj)]
    /\ UNCHANGED <<e1, e2, heap, named>>

\* k.ptr->value = v: ptr and value are public members, and a const tag
\* instance's ptr still points to a non-const holder.
Mutate(p, v) ==
    /\ e1.status = "constructed"
    /\ p \in named
    /\ heap[p].value # v
    /\ heap' = [heap EXCEPT ![p].value = v]
    /\ UNCHANGED <<e1, e2, named, ret>>

\* The named tag instances go out of scope.
ScopeExit ==
    /\ named # {}
    /\ named' = {}
    /\ heap' = Live(heap, {}, e1.obj, e2.obj)
    /\ UNCHANGED <<e1, e2, ret>>

\* The errors are destroyed (the handler returns) or the rejected call is
\* given up.
Destroy ==
    /\ e1.status # "idle"
    /\ e1' = Idle
    /\ e2' = Idle
    /\ heap' = [p \in {} |-> 0]
    /\ named' = {}
    /\ ret' = NoCall

Next ==
    \/ Construct
    \/ \E perm \in Permutations(Len(e1.args)) : ConstructReordered(perm)
    \/ \E which \in 1..2, T \in TagKinds : Get(which, T)
    \/ \E which \in 1..2 : What(which)
    \/ \E p \in named, v \in Values : Mutate(p, v)
    \/ ScopeExit
    \/ Destroy

Spec == Init /\ [][Next]_vars

(***************************************************************************)
(* Vocabulary of the properties                                            *)
(***************************************************************************)
\* Two arguments of the list are instances of the same tag kind.
HasDupKinds(args) ==
    \E i, j \in 1..Len(args) : i # j /\ args[i].kind = args[j].kind

\* The template is one boost::format accepts.
WellFormed(reason) == parse(reason, 1, <<>>).exc = "none"

\* The number of positional placeholders of a well-formed template.
Placeholders(reason) == num_args(parse(reason, 1, <<>>).items)

\* The values supplied, in the order supplied.
Supplied(args) == [i \in 1..Len(args) |-> args[i].value]

\* Some argument of the list is an instance of tag kind T.
Has(args, T) == \E i \in 1..Len(args) : args[i].kind = T

RECURSIVE Fill(_, _, _)
\* The template read left to right, each "%s" replaced by the next of
\* vals, each "%%" written as esc, every other character kept.
Fill(fmt, vals, esc) ==
    IF fmt = <<>> THEN <<>>
    ELSE IF Len(fmt) >= 2 /\ fmt[1] = "%" /\ fmt[2] = "s"
         THEN (IF vals = <<>> THEN <<>> ELSE Head(vals))
              \o Fill(SubSeq(fmt, 3, Len(fmt)),
                      IF vals = <<>> THEN <<>> ELSE Tail(vals), esc)
    ELSE IF Len(fmt) >= 2 /\ fmt[1] = "%" /\ fmt[2] = "%"
         THEN esc \o Fill(SubSeq(fmt, 3, Len(fmt)), vals, esc)
    ELSE <<fmt[1]>> \o Fill(Tail(fmt), vals, esc)

Constructed(which) == Errors[which].status = "constructed"

\* A step that is a what() or a get<T>() call.
QueryStep ==
    \/ \E which \in 1..2, T \in TagKinds : Get(which, T)
    \/ \E which \in 1..2 : What(which)

(***************************************************************************)
(* C1: an argument list with two instances of the same tag kind is always  *)
(* rejected with the duplicate-tag failure (the static_assert), and no     *)
(* error value comes into existence, whatever the values, the positions    *)
(* and the way each argument is passed.                                    *)
(***************************************************************************)
C1_DuplicateRejection ==
    (e1.status # "idle" /\ HasDupKinds(e1.args))
        => /\ e1.status = "rejected"
           /\ "static_assert" \in e1.failure
           /\ e1.obj = NoError

(***************************************************************************)
(* C2: with more duplicate-free tag instances than placeholders the        *)
(* construction succeeds, the message is the template filled from the      *)
(* first p instances, and get<T>() succeeds for every supplied tag kind.   *)
(***************************************************************************)
C2_ExtraArgumentTolerance ==
    (/\ e1.status # "idle"
     /\ WellFormed(e1.reason)
     /\ Len(e1.args) > Placeholders(e1.reason)
     /\ ~HasDupKinds(e1.args))
        => /\ e1.status = "constructed"
           /\ what(e1.obj)
                = Fill(e1.reason,
                       SubSeq(Supplied(e1.args), 1, Placeholders(e1.reason)),
                       <<"%">>)
           /\ \A i \in 1..Len(e1.args) :
                get(e1.obj, e1.args[i].kind, heap).thrown = "none"

(***************************************************************************)
(* C3: on every constructed error, for every tag instance T(v) of its      *)
(* argument list, get<T>() returns v.                                      *)
(***************************************************************************)
C3_TypedRoundTrip ==
    \A which \in 1..2 :
        Constructed(which) =>
            \A i \in 1..Len(Errors[which].args) :
                get(Errors[which].obj, Errors[which].args[i].kind, heap)
                    = [thrown |-> "none", value |-> Errors[which].args[i].value]

(***************************************************************************)
(* C4: on every constructed error and for every tag kind T, get<T>() fails *)
(* with "no such tag" exactly when no instance of T was in the argument    *)
(* list, both as the function stands and as the last get<T>() call went.   *)
(***************************************************************************)
C4_AbsenceReporting ==
    /\ \A which \in 1..2 :
        Constructed(which) =>
            \A T \in TagKinds :
                (get(Errors[which].obj, T, heap).thrown = "no such tag")
                    <=> ~Has(Errors[which].args, T)
    /\ ret.op = "get" =>
        /\ ret.thrown \in {"none", "no such tag"}
        /\ (ret.thrown = "no such tag") <=> ~Has(Errors[ret.on].args, ret.tag)

\* A get<T>() for a tag kind that was not supplied has thrown, on an error
\* that carries another tag.
C4_Witness ==
    /\ ret.op = "get"
    /\ ret.thrown = "no such tag"
    /\ Constructed(ret.on)
    /\ ~Has(Errors[ret.on].args, ret.tag)
    /\ Len(Errors[ret.on].args) = 1

(***************************************************************************)
(* C5 as stated: with exactly as many duplicate-free tag instances as      *)
(* placeholders, what() is the template with the i-th placeholder replaced *)
(* by the i-th value and ALL other template text unchanged.                *)
(***************************************************************************)
C5_MessageRendering_AsStated ==
    \A which \in 1..2 :
        (/\ Constructed(which)
         /\ ~HasDupKinds(Errors[which].args)
         /\ Len(Errors[which].args) = Placeholders(Errors[which].reason))
            => what(Errors[which].obj)
                 = Fill(Errors[which].reason, Supplied(Errors[which].args),
                        <<"%", "%">>)

(***************************************************************************)
(* C5 as amended: with exactly as many duplicate-free tag instances as     *)
(* placeholders (plain %s directives), what() is the template with the     *)
(* i-th placeholder replaced by the i-th value, each escape %% written as  *)
(* one %, and all other template text unchanged; and that is what a what() *)
(* call returns.                                                           *)
(***************************************************************************)
C5_MessageRendering ==
    /\ \A which \in 1..2 :
        (/\ Constructed(which)
         /\ ~HasDupKinds(Errors[which].args)
         /\ Len(Errors[which].args) = Placeholders(Errors[which].reason))
            => what(Errors[which].obj)
                 = Fill(Errors[which].reason, Supplied(Errors[which].args),
                        <<"%">>)
    /\ (ret.op = "what" /\ ~HasDupKinds(Errors[ret.on].args))
        => ret.value = Fill(Errors[ret.on].reason,
                            Supplied(Errors[ret.on].args), <<"%">>)

\* what() has been called on an error built from two placeholders and two
\* tags of different kinds and values, and the text differs from the
\* template.
C5_Witness ==
    /\ ret.op = "what"
    /\ ret.on = 1
    /\ Len(e1.args) = 2
    /\ Placeholders(e1.reason) = 2
    /\ ~HasDupKinds(e1.args)
    /\ e1.args[1].value # e1.args[2].value
    /\ ret.value # e1.reason

(***************************************************************************)
(* C6: with fewer tag instances than placeholders, rendering fails with    *)
(* the format failure (too_few_args), construction does not complete and   *)
(* no error value exists.                                                  *)
(***************************************************************************)
C6_TooFewValues ==
    (/\ e1.status # "idle"
     /\ WellFormed(e1.reason)
     /\ Len(e1.args) < Placeholders(e1.reason))
        => /\ e1.status = "thrown"
           /\ e1.failure = {"too_few_args"}
           /\ e1.obj = NoError

(***************************************************************************)
(* C7: in every constructed error the identities of m_hash_index are       *)
(* exactly the keys of m_info_map, each occurs once and in the order       *)
(* supplied, both have the size of the argument list (so no insertion hit  *)
(* a key already present).                                                 *)
(***************************************************************************)
C7_IndexContextBijection ==
    \A which \in 1..2 :
        Constructed(which) =>
            LET o == Errors[which].obj
                a == Errors[which].args
            IN  /\ Range(o.m_hash_index) = DOMAIN o.m_info_map
                /\ \A i, j \in 1..Len(o.m_hash_index) :
                     o.m_hash_index[i] = o.m_hash_index[j] => i = j
                /\ o.m_hash_index = [i \in 1..Len(a) |-> hash(a[i].kind)]
                /\ Len(o.m_hash_index) = Len(a)
                /\ Cardinality(DOMAIN o.m_info_map) = Len(a)

(***************************************************************************)
(* C8: once an error is constructed it is the only holder of its context   *)
(* holders: no tag instance of the caller still points to one.             *)
(***************************************************************************)
C8_ExclusiveOwnership ==
    Constructed(1) => Range(e1.obj.m_info_map) \cap named = {}

(***************************************************************************)
(* C9: a what() or get<T>() call, also a get<T>() that throws, leaves      *)
(* every error's message, m_hash_index and m_info_map and every holder as  *)
(* they were, so every get<U>() gives afterwards what it gave before.      *)
(***************************************************************************)
C9_QueriesLeaveErrorUnchanged ==
    [][QueryStep =>
        /\ e1' = e1
        /\ e2' = e2
        /\ heap' = heap
        /\ \A which \in 1..2, U \in TagKinds :
             Constructed(which) =>
                get(Errors[which].obj, U, heap)' = get(Errors[which].obj, U, heap)
      ]_vars

\* A get<T>() has thrown on the first error while a supplied tag of it
\* still reads as supplied.
C9_Witness ==
    /\ ret.op = "get"
    /\ ret.on = 1
    /\ ret.thrown = "no such tag"
    /\ Constructed(1)
    /\ \E i \in 1..Len(e1.args) :
         get(e1.obj, e1.args[i].kind, heap)
            = [thrown |-> "none", value |-> e1.args[i].value]

(***************************************************************************)
(* C10: two errors constructed from the same duplicate-free tag instances  *)
(* in two different orders give the same get<T>() outcome for every tag    *)
(* kind T: the same value, or "no such tag" on both.                       *)
(***************************************************************************)
C10_OrderIndependence ==
    (Constructed(1) /\ Constructed(2) /\ ~HasDupKinds(e1.args))
        => \A T \in TagKinds :
             get(e1.obj, T, heap) = get(e2.obj, T, heap)

\* Both errors exist, built from two tags of different values in opposite
\* orders, and get<T>() has returned a value from the second.
C10_Witness ==
    /\ Constructed(1)
    /\ Constructed(2)
    /\ ~HasDupKinds(e1.args)
    /\ Len(e1.args) = 2
    /\ e2.args[1].kind = e1.args[2].kind
    /\ e1.args[1].value # e1.args[2].value
    /\ ret.op = "get"
    /\ ret.on = 2
    /\ ret.thrown = "none"

=============================================================================
